---- MODULE Spec2Model ----
(***************************************************************************)
(* Model of lib/query.js: the Query constructor that normalizes a          *)
(* Waterline criteria object into a TingoDB/NeDB query document.           *)
(*                                                                         *)
(* JavaScript values are records of one shape, so that any two of them can *)
(* be compared:                                                            *)
(*   t    the kind: "undefined", "null", "boolean", "number", "NaN",       *)
(*        "float", "string", "array", "object", "regexp", "date", or the   *)
(*        name of a raised error ("ReferenceError", "TypeError")           *)
(*   s    the characters of a string, the source of a regexp, the text a   *)
(*        float or a date was built from; one character per element        *)
(*   n    the value of a number, 1/0 for true/false                        *)
(*   kids the own properties of an object in insertion order (k the key,   *)
(*        v the value), the elements of an array (k empty)                 *)
(*   a    the identity of an object or array: the path of the object in    *)
(*        the caller's criteria, or Fresh for one the translation creates  *)
(*   fl   the flags of a regexp                                            *)
(***************************************************************************)
EXTENDS Integers, Sequences, FiniteSets, TLC

\* schema, criteria: the fields of the Query instance; options: the argument
\* the constructor was called with; error: the error the constructor raised
\* to its caller; pc: "new" before the call, then "done" or "thrown".
VARIABLES schema, options, criteria, error, pc

vars == <<schema, options, criteria, error, pc>>

\* ------------------------------------------------------------------ values

Fresh == <<0>>

Undefined == [t |-> "undefined", s |-> <<>>, n |-> 0, kids |-> <<>>, a |-> <<>>, fl |-> <<>>]

Null == [Undefined EXCEPT !.t = "null"]

NaN == [Undefined EXCEPT !.t = "NaN"]

Num(i) == [Undefined EXCEPT !.t = "number", !.n = i]

Bool(b) == [Undefined EXCEPT !.t = "boolean", !.n = IF b THEN 1 ELSE 0]

Str(cs) == [Undefined EXCEPT !.t = "string", !.s = cs]

Float(cs) == [Undefined EXCEPT !.t = "float", !.s = cs]

RegExp(src, flags) == [Undefined EXCEPT !.t = "regexp", !.s = src, !.fl = flags]

DateOf(cs) == [Undefined EXCEPT !.t = "date", !.s = cs]

Pair(key, val) == [k |-> key, v |-> val]

Obj(pairs) == [Undefined EXCEPT !.t = "object", !.kids = pairs, !.a = Fresh]

Arr(vals) ==
  [Undefined EXCEPT !.t = "array", !.a = Fresh,
                    !.kids = [i \in 1..Len(vals) |-> Pair(<<>>, vals[i])]]

DateYMD(y, m, d) ==
  [Undefined EXCEPT !.t = "date", !.kids = <<Pair(<<>>, y), Pair(<<>>, m), Pair(<<>>, d)>>]

EmptyObj == Obj(<<>>)

ReferenceError == [Undefined EXCEPT !.t = "ReferenceError"]

TypeError == [Undefined EXCEPT !.t = "TypeError"]

IsThrow(v) == v.t \in {"ReferenceError", "TypeError"}

Elems(v) == [i \in 1..Len(v.kids) |-> v.kids[i].v]

\* ----------------------------------------------------------------- strings

Digits == <<"0", "1", "2", "3", "4", "5", "6", "7", "8", "9">>

UpperCase == <<"A", "B", "C", "D", "E", "F", "G", "H", "I", "J", "K", "L", "M",
               "N", "O", "P", "Q", "R", "S", "T", "U", "V", "W", "X", "Y", "Z">>

LowerCase == <<"a", "b", "c", "d", "e", "f", "g", "h", "i", "j", "k", "l", "m",
               "n", "o", "p", "q", "r", "s", "t", "u", "v", "w", "x", "y", "z">>

IsDigit(c) == \E i \in 1..Len(Digits) : Digits[i] = c

toLowerCaseChar(c) ==
  IF \E i \in 1..Len(UpperCase) : UpperCase[i] = c
  THEN LowerCase[CHOOSE i \in 1..Len(UpperCase) : UpperCase[i] = c]
  ELSE c

toLowerCase(cs) == [i \in 1..Len(cs) |-> toLowerCaseChar(cs[i])]

RECURSIVE NumToChars(_)
NumToChars(i) ==
  IF i < 0 THEN <<"-">> \o NumToChars(0 - i)
  ELSE IF i < Len(Digits) THEN <<Digits[i + 1]>>
  ELSE NumToChars(i \div Len(Digits)) \o <<Digits[(i % Len(Digits)) + 1]>>

\* The property name a reduce key stands for: obj[key] converts a number to
\* its decimal string.
PropName(key) == IF key.t = "number" THEN NumToChars(key.n) ELSE key.s

\* --------------------------------------------------------------- objects

Has(o, name) == \E i \in 1..Len(o.kids) : o.kids[i].k = name

IndexOf(o, name) == CHOOSE i \in 1..Len(o.kids) : o.kids[i].k = name

Get(o, name) == IF Has(o, name) THEN o.kids[IndexOf(o, name)].v ELSE Undefined

\* o[name] = val: an existing property keeps its place, a new one is appended.
Put(o, name, val) ==
  IF Has(o, name)
  THEN [o EXCEPT !.kids[IndexOf(o, name)].v = val]
  ELSE [o EXCEPT !.kids = Append(o.kids, Pair(name, val))]

Keys(o) == {o.kids[i].k : i \in 1..Len(o.kids)}

\* --------------------------------------------------------- lodash predicates

isString(v) == v.t = "string"

isArray(v) == v.t = "array"

isNull(v) == v.t = "null"

isPlainObject(v) == v.t = "object"

isDate(v) == v.t = "date"

\* The (value, key) pairs _.reduce visits: the own properties of an object,
\* the elements of an array or the characters of a string under their numeric
\* index, nothing for any other value.
Iteratee(coll) ==
  IF coll.t = "object" THEN [i \in 1..Len(coll.kids) |-> Pair(Str(coll.kids[i].k), coll.kids[i].v)]
  ELSE IF coll.t = "array" THEN [i \in 1..Len(coll.kids) |-> Pair(Num(i - 1), coll.kids[i].v)]
  ELSE IF coll.t = "string" THEN [i \in 1..Len(coll.s) |-> Pair(Num(i - 1), Str(<<coll.s[i]>>))]
  ELSE <<>>

\* ------------------------------------------------------------ regex escape

MetaChars == {"-", "[", "]", "{", "}", "(", ")", "+", "?", "*", ".", "/", ",",
              "\\", "^", "$", "|", "#"}

RECURSIVE EscapeChars(_)
EscapeChars(cs) ==
  IF cs = <<>> THEN <<>>
  ELSE (IF cs[1] \in MetaChars THEN <<"\\", cs[1]>> ELSE <<cs[1]>>) \o EscapeChars(Tail(cs))

\* Query.prototype.caseInsensitive
caseInsensitive(val) == IF ~isString(val) THEN val ELSE Str(EscapeChars(val.s))

\* utils.caseInsensitive(val): the module binds no `utils` (its only binding
\* is `_`), so evaluating the identifier raises before anything is called.
utils_caseInsensitive(val) == ReferenceError

\* val.replace(/%/g, '.*')
RECURSIVE replacePercent(_)
replacePercent(cs) ==
  IF cs = <<>> THEN <<>>
  ELSE (IF cs[1] = "%" THEN <<".", "*">> ELSE <<cs[1]>>) \o replacePercent(Tail(cs))

\* new RegExp('^' + val + '$', 'i')
anchored(body) == RegExp(<<"^">> \o body \o <<"$">>, <<"i">>)

\* ------------------------------------------------------ parseInt, parseFloat

WhiteSpace == {" ", "\t", "\n", "\r"}

RadixDigits == Digits \o <<"a", "b", "c", "d", "e", "f">>

RadixVal(c, radix) ==
  LET lc == toLowerCaseChar(c)
  IN IF \E i \in 1..radix : RadixDigits[i] = lc
     THEN (CHOOSE i \in 1..radix : RadixDigits[i] = lc) - 1
     ELSE 0 - 1

RECURSIVE StripWS(_)
StripWS(cs) == IF cs # <<>> /\ cs[1] \in WhiteSpace THEN StripWS(Tail(cs)) ELSE cs

\* The longest prefix of cs made of digits of the radix.
RECURSIVE TakeRadixDigits(_, _)
TakeRadixDigits(cs, radix) ==
  IF cs = <<>> THEN <<>>
  ELSE IF RadixVal(cs[1], radix) < 0 THEN <<>>
  ELSE <<cs[1]>> \o TakeRadixDigits(Tail(cs), radix)

RECURSIVE RadixValue(_, _)
RadixValue(ds, radix) ==
  IF ds = <<>> THEN 0
  ELSE RadixValue(SubSeq(ds, 1, Len(ds) - 1), radix) * radix + RadixVal(ds[Len(ds)], radix)

NumOrNaN(ds, radix, neg) ==
  IF ds = <<>> THEN NaN ELSE Num(IF neg THEN 0 - RadixValue(ds, radix) ELSE RadixValue(ds, radix))

\* parseInt(val) with no radix: leading white space, a sign, 0x for base 16,
\* then the longest run of digits; NaN when there is none.
Signed(cs) == cs # <<>> /\ cs[1] \in {"+", "-"}

Unsigned(cs) == IF Signed(cs) THEN Tail(cs) ELSE cs

HexPrefixed(cs) == Len(cs) >= 2 /\ cs[1] = "0" /\ cs[2] \in {"x", "X"}

parseIntDigits(cs, neg) ==
  IF HexPrefixed(cs)
  THEN NumOrNaN(TakeRadixDigits(Tail(Tail(cs)), 16), 16, neg)
  ELSE NumOrNaN(TakeRadixDigits(cs, 10), 10, neg)

parseIntChars(cs) == parseIntDigits(Unsigned(cs), cs # <<>> /\ cs[1] = "-")

parseInt(val) == parseIntChars(StripWS(val.s))

RECURSIVE TakeDigits(_)
TakeDigits(cs) ==
  IF cs # <<>> /\ IsDigit(cs[1]) THEN <<cs[1]>> \o TakeDigits(Tail(cs)) ELSE <<>>

Drop(cs, k) == SubSeq(cs, k + 1, Len(cs))

SignOf(cs) == IF Signed(cs) THEN <<cs[1]>> ELSE <<>>

\* The exponent at the head of cs: e or E, a sign, digits; empty without digits.
exponentDigits(cs, sign, ds) == IF ds = <<>> THEN <<>> ELSE <<cs[1]>> \o sign \o ds

exponentSigned(cs, sign) == exponentDigits(cs, sign, TakeDigits(Drop(cs, 1 + Len(sign))))

exponent(cs) ==
  IF cs = <<>> THEN <<>>
  ELSE IF cs[1] \notin {"e", "E"} THEN <<>>
  ELSE exponentSigned(cs, SignOf(Tail(cs)))

\* The fraction at the head of cs: a dot and the digits after it.
fraction(cs) ==
  IF cs = <<>> THEN <<>>
  ELSE IF cs[1] = "." THEN <<".">> \o TakeDigits(Tail(cs))
  ELSE <<>>

floatOfMantissa(sign, mantissa, rest) ==
  IF \E i \in 1..Len(mantissa) : IsDigit(mantissa[i])
  THEN Float(sign \o mantissa \o exponent(rest))
  ELSE NaN

floatOfFraction(sign, int, frac, rest) == floatOfMantissa(sign, int \o frac, Drop(rest, Len(frac)))

floatOfInt(sign, int, rest) == floatOfFraction(sign, int, fraction(rest), rest)

floatOfSign(sign, cs) == floatOfInt(sign, TakeDigits(cs), Drop(cs, Len(TakeDigits(cs))))

parseFloatChars(cs) == floatOfSign(SignOf(cs), Unsigned(cs))

\* parseFloat(val): the longest prefix that is a decimal literal (sign, digits,
\* fraction, exponent), kept as its text; NaN when there is none.
parseFloat(val) == parseFloatChars(StripWS(val.s))

\* ------------------------------------------------------------ date patterns

\* /^\d{4}-\d{2}-\d{2}T\d{2}\:\d{2}\:\d{2}\.\d{3}Z$/ with \d written "#".
IsoPattern == <<"#", "#", "#", "#", "-", "#", "#", "-", "#", "#", "T", "#", "#", ":",
                "#", "#", ":", "#", "#", ".", "#", "#", "#", "Z">>

isoTest(cs) ==
  /\ Len(cs) = Len(IsoPattern)
  /\ \A i \in 1..Len(cs) : IF IsoPattern[i] = "#" THEN IsDigit(cs[i]) ELSE cs[i] = IsoPattern[i]

RECURSIVE split(_, _)
split(cs, sep) ==
  IF cs = <<>> THEN <<cs>>
  ELSE IF cs[1] = sep THEN <<(<<>>)>> \o split(Tail(cs), sep)
  ELSE [split(Tail(cs), sep) EXCEPT ![1] = <<cs[1]>> \o @]

AllDigits(cs) == \A i \in 1..Len(cs) : IsDigit(cs[i])

\* /^[1-9]\d{3}-\d{1,2}-\d{1,2}$/
ymdParts(parts) ==
  /\ Len(parts) = 3
  /\ Len(parts[1]) = 4 /\ AllDigits(parts[1]) /\ parts[1][1] # "0"
  /\ Len(parts[2]) \in {1, 2} /\ AllDigits(parts[2])
  /\ Len(parts[3]) \in {1, 2} /\ AllDigits(parts[3])

ymdTest(cs) == ymdParts(split(cs, "-"))

\* new Date(parts[0], parts[1] - 1, parts[2])
dateOfParts(parts) ==
  DateYMD(Num(RadixValue(parts[1], 10)), Num(RadixValue(parts[2], 10) - 1),
          Num(RadixValue(parts[3], 10)))

dateFromParts(cs) == dateOfParts(split(cs, "-"))

\* ---------------------------------------------------------------- schema

\* The schema is a set of [field, type] descriptors, one per declared field.
schemaHas(field) == \E e \in schema : e.field = PropName(field)

schemaType(field) == (CHOOSE e \in schema : e.field = PropName(field)).type

coerceInteger_unparsed(val) == val

\* The branch of parseValue for a field the schema declares integer.
coerceInteger(val) == parseInt(val)

\* The body of parseValue for a string val of a field declared with a type
\* other than 'string'.
coerce(type, val) ==
  IF type = "integer" THEN coerceInteger(val)
  ELSE IF type = "float" THEN parseFloat(val)
  ELSE IF (isoTest(val.s) /\ type = "date") \/ type = "datetime" THEN DateOf(val.s)
  ELSE IF ymdTest(val.s) /\ type = "date" THEN dateFromParts(val.s)
  ELSE IF val.s = <<"f", "a", "l", "s", "e">> /\ type = "boolean" THEN Bool(FALSE)
  ELSE IF val.s = <<"t", "r", "u", "e">> /\ type = "boolean" THEN Bool(TRUE)
  ELSE val

coerceDeclared(type, val) == IF type # "string" THEN coerce(type, val) ELSE val

\* Query.prototype.parseValue
parseValue(field, modifier, val) ==
  IF ~isString(val) THEN val
  ELSE IF ~schemaHas(field) THEN val
  ELSE coerceDeclared(schemaType(field), val)

\* ------------------------------------------------------------ key spellings

k_or == <<"o", "r">>

k_Sor == <<"$", "o", "r">>

k_Sand == <<"$", "a", "n", "d">>

k_Snor == <<"$", "n", "o", "r">>

k_like == <<"l", "i", "k", "e">>

k_id == <<"i", "d">>

k__id == <<"_", "i", "d">>

k_not == <<"n", "o", "t">>

k_bang == <<"!">>

k_bsontype == <<"_", "b", "s", "o", "n", "t", "y", "p", "e">>

k_contains == <<"c", "o", "n", "t", "a", "i", "n", "s">>

k_startsWith == <<"s", "t", "a", "r", "t", "s", "W", "i", "t", "h">>

k_endsWith == <<"e", "n", "d", "s", "W", "i", "t", "h">>

k_lessThan == <<"l", "e", "s", "s", "T", "h", "a", "n">>

k_lessThanOrEqual == k_lessThan \o <<"O", "r", "E", "q", "u", "a", "l">>

k_greaterThan == <<"g", "r", "e", "a", "t", "e", "r", "T", "h", "a", "n">>

k_greaterThanOrEqual == k_greaterThan \o <<"O", "r", "E", "q", "u", "a", "l">>

k_Snot == <<"$", "n", "o", "t">>

k_Sne == <<"$", "n", "e">>

k_Snin == <<"$", "n", "i", "n">>

k_Sin == <<"$", "i", "n">>

k_Slt == <<"$", "l", "t">>

k_Slte == <<"$", "l", "t", "e">>

k_Sgt == <<"$", "g", "t">>

k_Sgte == <<"$", "g", "t", "e">>

k_where == <<"w", "h", "e", "r", "e">>

k_sort == <<"s", "o", "r", "t">>

\* ------------------------------------------------------- parseExpression

\* modifier === '!' || modifier.toLowerCase() === 'not'
isNot(modifier) == modifier = k_bang \/ toLowerCase(modifier) = k_not

negationOperator_ne(val) == k_Sne

\* _.isArray(val) ? '$nin' : '$ne'
negationOperator(val) == IF isArray(val) THEN k_Snin ELSE k_Sne

isLessThan_exact(modifier) == modifier \in {<<"<">>, k_lessThan, <<"l", "t">>}

isLessThan(modifier) ==
  modifier = <<"<">> \/ modifier = k_lessThan \/ toLowerCase(modifier) = <<"l", "t">>

isLessThanOrEqual(modifier) ==
  modifier = <<"<", "=">> \/ modifier = k_lessThanOrEqual \/ toLowerCase(modifier) = <<"l", "t", "e">>

isGreaterThan(modifier) ==
  modifier = <<">">> \/ modifier = k_greaterThan \/ toLowerCase(modifier) = <<"g", "t">>

isGreaterThanOrEqual(modifier) ==
  modifier = <<">", "=">> \/ modifier = k_greaterThanOrEqual \/ toLowerCase(modifier) = <<"g", "t", "e">>

StringModifiers == {k_contains, k_like, k_startsWith, k_endsWith}

\* The four string branches: each escapes the operand through `utils`, then
\* builds the pattern and compiles it.
pattern(modifier, esc) ==
  IF IsThrow(esc) THEN esc
  ELSE anchored(IF modifier = k_contains THEN <<".", "*">> \o esc.s \o <<".", "*">>
                ELSE IF modifier = k_like THEN replacePercent(esc.s)
                ELSE IF modifier = k_startsWith THEN esc.s \o <<".", "*">>
                ELSE <<".", "*">> \o esc.s)

stringModifier(modifier, val) == pattern(modifier, utils_caseInsensitive(val))

\* The accumulator each _.reduce call is seeded with: a new empty object.
expressionAccumulator(expression) == EmptyObj

clauseAccumulator_input(original) == original

clauseAccumulator(original) == EmptyObj

likesAccumulator(val) == EmptyObj

sortAccumulator(original) == EmptyObj

RECURSIVE parseExpression(_, _)

\* obj[key] = val, unless computing val raised.
Assign(obj, key, val) == IF IsThrow(val) THEN val ELSE Put(obj, key, val)

\* The key the branches after the string modifiers assign under: the canonical
\* comparison operator, or the modifier itself.
operatorKey(modifier) ==
  IF isLessThan(modifier) THEN k_Slt
  ELSE IF isLessThanOrEqual(modifier) THEN k_Slte
  ELSE IF isGreaterThan(modifier) THEN k_Sgt
  ELSE IF isGreaterThanOrEqual(modifier) THEN k_Sgte
  ELSE modifier

\* The part of a modifier's translation that does not recurse: the value
\* returned for a string modifier, else the key and the coerced operand that
\* are assigned to the accumulator.
modifierValue(field, obj, val, modifier, key) ==
  IF ~isNot(modifier) /\ isString(val) /\ modifier \in StringModifiers
  THEN stringModifier(modifier, val)
  ELSE Put(obj, key, parseValue(field, Str(IF isNot(modifier) THEN key ELSE modifier), val))

\* The callback of the reduce over a modifier map.
parseModifier(field, obj, val, modifier) ==
  IF isNot(modifier) /\ isPlainObject(val) /\ ~Has(val, k_bsontype)
  THEN Assign(obj, k_Snot, parseExpression(field, val))
  ELSE modifierValue(field, obj, val, modifier,
                     IF isNot(modifier) THEN negationOperator(val) ELSE operatorKey(modifier))

\* _.reduce(expression, callback, {}) from pair i on; a raised error ends it.
RECURSIVE reduceModifiers(_, _, _, _)
reduceModifiers(field, pairs, i, obj) ==
  IF IsThrow(obj) \/ i > Len(pairs) THEN obj
  ELSE reduceModifiers(field, pairs, i + 1, parseModifier(field, obj, pairs[i].v, pairs[i].k.s))

\* Query.prototype.parseExpression
parseExpression(field, expression) ==
  IF isPlainObject(expression) /\ ~isDate(expression)
  THEN reduceModifiers(field, Iteratee(expression), 1, expressionAccumulator(expression))
  ELSE IF isArray(expression)
  THEN Obj(<<Pair(k_Sin, parseValue(field, Str(k_Sin), expression))>>)
  ELSE parseValue(field, Undefined, expression)

\* ------------------------------------------------------------ parseClause

foldOr_exact(key) == IF key = k_or THEN k_Sor ELSE key

\* if (key.toLowerCase() === 'or') key = '$or'
foldOr(key) == IF toLowerCase(key) = k_or THEN k_Sor ELSE key

LogicalOperators == {k_Sor, k_Sand, k_Snor}

normalizeId_always(key, this) == IF key = k_id THEN k__id ELSE key

\* if (key === 'id' && !_.has(this, '_id')) key = '_id', where `this` is the
\* fourth argument of the reduce call: the clause being parsed.
normalizeId(key, this) == IF key = k_id /\ ~Has(this, k__id) THEN k__id ELSE key

\* The first raised error among vals, in order.
FirstThrow(vals) ==
  vals[CHOOSE i \in 1..Len(vals) : IsThrow(vals[i]) /\ \A h \in 1..(i - 1) : ~IsThrow(vals[h])]

AnyThrow(vals) == \E i \in 1..Len(vals) : IsThrow(vals[i])

\* The callback of the reduce inside the `like` branch.
parseLikeClauses(likes, expression, field) ==
  Assign(likes, PropName(field), parseExpression(field, Obj(<<Pair(k_like, expression)>>)))

RECURSIVE reduceLikes(_, _, _)
reduceLikes(pairs, i, likes) ==
  IF IsThrow(likes) \/ i > Len(pairs) THEN likes
  ELSE reduceLikes(pairs, i + 1, parseLikeClauses(likes, pairs[i].v, pairs[i].k))

\* _.extend(obj, source)
RECURSIVE extend(_, _, _)
extend(obj, source, i) ==
  IF i > Len(source.kids) THEN obj
  ELSE extend(Put(obj, source.kids[i].k, source.kids[i].v), source, i + 1)

RECURSIVE parseClause(_)

\* _.map(val, function (clause) { return self.parseClause(clause); })
mapClauses(val) == [i \in 1..Len(val.kids) |-> parseClause(val.kids[i].v)]

assignClauses(obj, key, parsed) ==
  IF AnyThrow(parsed) THEN FirstThrow(parsed) ELSE Put(obj, key, Arr(parsed))

extendWith(obj, likes) == IF IsThrow(likes) THEN likes ELSE extend(obj, likes, 1)

assignExpression(obj, key, val) == Assign(obj, key, parseExpression(Str(key), val))

\* The body of the callback once `or` is folded.
parseFoldedPair(obj, val, key, this) ==
  IF key \in LogicalOperators
  THEN IF isArray(val) THEN assignClauses(obj, key, mapClauses(val)) ELSE obj
  ELSE IF toLowerCase(key) = k_like
  THEN extendWith(obj, reduceLikes(Iteratee(val), 1, likesAccumulator(val)))
  ELSE assignExpression(obj, normalizeId(key, this), val)

\* The callback of the reduce over a clause; `this` is the reduce's thisArg.
parseClausePair(obj, val, key, this) ==
  IF ~isString(key) THEN TypeError ELSE parseFoldedPair(obj, val, foldOr(key.s), this)

RECURSIVE reduceClause(_, _, _, _)
reduceClause(pairs, i, obj, this) ==
  IF IsThrow(obj) \/ i > Len(pairs) THEN obj
  ELSE reduceClause(pairs, i + 1, parseClausePair(obj, pairs[i].v, pairs[i].k, this), this)

\* Query.prototype.parseClause
parseClause(original) ==
  reduceClause(Iteratee(original), 1, clauseAccumulator(original), original)

\* Query.prototype.parseWhere
parseWhere(original) == IF isNull(original) THEN EmptyObj ELSE parseClause(original)

\* -------------------------------------------------------------- parseSort

sortOrder_minusOne(order) ==
  IF order.t = "number" /\ order.n = 0 - 1 THEN Num(0 - 1) ELSE Num(1)

\* ([0, -1].indexOf(order) > -1) ? -1 : 1
sortOrder(order) ==
  IF order.t = "number" /\ order.n \in {0, 0 - 1} THEN Num(0 - 1) ELSE Num(1)

parseSortPair(sort, order, field) ==
  Put(sort, IF field = Str(k_id) THEN k__id ELSE PropName(field), sortOrder(order))

RECURSIVE reduceSort(_, _, _)
reduceSort(pairs, i, sort) ==
  IF i > Len(pairs) THEN sort
  ELSE reduceSort(pairs, i + 1, parseSortPair(sort, pairs[i].v, pairs[i].k))

\* Query.prototype.parseSort
parseSort(original) == reduceSort(Iteratee(original), 1, sortAccumulator(original))

\* ------------------------------------------------------ normalizeCriteria

\* The callback of _.mapValues.
normalizeValue(original, key) ==
  IF key = k_where THEN parseWhere(original)
  ELSE IF key = k_sort THEN parseSort(original)
  ELSE original

\* _.mapValues(options, callback): a new object with the keys of options.
RECURSIVE mapValues(_, _, _)
mapValues(pairs, i, result) ==
  IF IsThrow(result) \/ i > Len(pairs) THEN result
  ELSE mapValues(pairs, i + 1,
                 Assign(result, PropName(pairs[i].k),
                        normalizeValue(pairs[i].v, PropName(pairs[i].k))))

\* Query.prototype.normalizeCriteria
normalizeCriteria(opts) == mapValues(Iteratee(opts), 1, EmptyObj)

\* ----------------------------------------------------------------- inputs

MaxLen == 2

MaxClauses == 2

Alphabet == {"a", ".", "%", "4", "2"}

RECURSIVE SeqsUpTo(_, _)
SeqsUpTo(S, k) ==
  IF k = 0 THEN {<<>>}
  ELSE LET prev == SeqsUpTo(S, k - 1) IN prev \cup {Append(q, x) : q \in prev, x \in S}

Strings == SeqsUpTo(Alphabet, MaxLen)

k_age == <<"a", "g", "e">>

k_name == <<"n", "a", "m", "e">>

k_zip == <<"z", "i", "p">>

k_limit == <<"l", "i", "m", "i", "t">>

k_skip == <<"s", "k", "i", "p">>

s_42 == Str(<<"4", "2">>)

s_a == Str(<<"a">>)

O1(k1, v1) == Obj(<<Pair(k1, v1)>>)

O2(k1, v1, k2, v2) == Obj(<<Pair(k1, v1), Pair(k2, v2)>>)

O3(k1, v1, k2, v2, k3, v3) == Obj(<<Pair(k1, v1), Pair(k2, v2), Pair(k3, v3)>>)

\* The identity of every object and array of an input: its path from the root.
RECURSIVE Label(_, _)
Label(v, path) ==
  IF v.t \in {"object", "array"}
  THEN [v EXCEPT !.a = path,
                 !.kids = [i \in 1..Len(v.kids) |->
                             Pair(v.kids[i].k, Label(v.kids[i].v, Append(path, i)))]]
  ELSE v

Root == <<1>>

Schemas ==
  { {},
    {[field |-> k_id, type |-> "integer"], [field |-> k_age, type |-> "integer"],
     [field |-> k_name, type |-> "string"]},
    {[field |-> k__id, type |-> "integer"], [field |-> k_id, type |-> "string"],
     [field |-> k_age, type |-> "string"], [field |-> k_name, type |-> "integer"]},
    {[field |-> k_age, type |-> "float"], [field |-> k_name, type |-> "boolean"],
     [field |-> k_id, type |-> "datetime"], [field |-> k_zip, type |-> "date"]} }

FieldNames == {k_id, k__id, k_age, k_name, k_zip}

Scalars == {Num(0), Num(5), Null, Bool(TRUE), s_42, s_a}

\* A field with a scalar expression.
ScalarClauses ==
  {O1(f, v) : f \in FieldNames, v \in {Str(cs) : cs \in Strings} \cup Scalars}

ComparisonKeys ==
  { <<"<">>, k_lessThan, <<"l", "t">>, <<"L", "T">>, <<"L", "t">>,
    toLowerCase(k_lessThan), <<"L", "E", "S", "S", "T", "H", "A", "N">>,
    <<"<", "=">>, k_lessThanOrEqual, <<"l", "t", "e">>, <<"L", "T", "E">>, <<"l", "T", "e">>,
    toLowerCase(k_lessThanOrEqual),
    <<">">>, k_greaterThan, <<"g", "t">>, <<"G", "T">>, <<"g", "T">>,
    toLowerCase(k_greaterThan),
    <<">", "=">>, k_greaterThanOrEqual, <<"g", "t", "e">>, <<"G", "T", "E">>, <<"G", "t", "e">>,
    toLowerCase(k_greaterThanOrEqual) }

NotKeys == {k_bang, k_not, <<"N", "O", "T">>, <<"N", "o", "t">>, <<"n", "O", "t">>}

OtherKeys ==
  { <<"$", "e", "x", "i", "s", "t", "s">>, k_Slt, <<"C", "o", "n", "t", "a", "i", "n", "s">>,
    <<"L", "I", "K", "E">>, <<"f", "o", "o">> }

\* A field with a modifier map of one modifier.
ModifierClauses ==
  {O1(f, O1(m, v)) : f \in {k_age, k_name, k_id},
                     m \in ComparisonKeys \cup OtherKeys \cup StringModifiers,
                     v \in {s_42, Str(<<"a", "%">>), Num(5), Null}}

StringMatchClauses ==
  {O1(f, O1(m, Str(cs))) : f \in {k_age, k_name}, m \in StringModifiers, cs \in Strings}

NotOperands ==
  Scalars \cup
  { Arr(<<Num(1), Num(2), Num(3)>>), Arr(<<s_42, s_a>>), Arr(<<>>),
    EmptyObj, O1(<<"l", "t">>, s_42), O1(k_not, Arr(<<Num(1)>>)), O1(k_contains, s_a),
    O1(k_bang, O1(<<">">>, s_42)), O2(<<">">>, Num(1), k_not, s_42),
    O1(k_bsontype, Str(<<"O", "b", "j", "e", "c", "t", "I", "D">>)),
    DateOf(<<"2">>), RegExp(<<"a">>, <<>>) }

NotClauses == {O1(f, O1(m, v)) : f \in {k_age, k_name}, m \in NotKeys, v \in NotOperands}

\* A field with a modifier map of two modifiers.
PairedModifierClauses ==
  {O1(k_age, O2(m1, v1, m2, v2)) :
     m1 \in {<<">">>, <<"l", "t">>, k_not, k_contains},
     m2 \in {<<"<">>, <<"G", "T">>, k_bang, k_like},
     v1 \in {Num(5), s_a}, v2 \in {Num(7), s_42}}

LogicalKeys ==
  { k_or, <<"O", "R">>, <<"O", "r">>, k_Sor, k_Sand, k_Snor,
    <<"$", "O", "R">>, <<"$", "A", "n", "d">>, <<"a", "n", "d">> }

\* The clauses a logical operator's array holds.
InnerClauses ==
  { EmptyObj, O1(k_name, s_a), O2(k_id, Num(5), k_age, O1(<<"l", "t">>, s_42)),
    O1(k_name, O1(k_contains, s_a)),
    O1(k_or, Arr(<<O1(k_id, s_42), O1(k_Sand, Arr(<<O1(k_age, s_42)>>))>>)),
    O1(k_Snor, Num(5)), Null }

ClauseArrays == {Arr(q) : q \in SeqsUpTo(InnerClauses, MaxClauses)}

LogicalClauses ==
  {O1(k, v) : k \in LogicalKeys,
             v \in ClauseArrays \cup {Num(5), s_a, Null, O1(k_name, s_a), Bool(TRUE)}}

LikeKeys == {k_like, <<"L", "I", "K", "E">>, <<"L", "i", "k", "e">>}

LikeOperands ==
  {O1(f, e) : f \in {k_name, k_id, k__id, k_or, k_Sor, k_Sand, k_Snor},
             e \in {Num(5), Str(<<"a", "%">>), Null, Arr(<<Num(1)>>), O1(<<"l", "t">>, Num(5))}}
  \cup {O2(k_name, Num(5), k_age, Num(7)), EmptyObj, Num(5), Null, s_a,
        Arr(<<Num(5)>>), Arr(<<s_a>>)}

LikeClauses == {O1(k, v) : k \in LikeKeys, v \in LikeOperands}

\* Clauses of two or three keys, in every order of the keys.
KeyedValues ==
  { Pair(k_id, Num(5)), Pair(k_id, s_42), Pair(k__id, Num(7)), Pair(k__id, s_a),
    Pair(k_name, s_a),
    Pair(k_or, Arr(<<O1(k_name, s_a)>>)), Pair(k_or, Num(5)),
    Pair(k_Sor, Arr(<<O1(k_id, Num(5))>>)), Pair(k_Sor, s_a),
    Pair(k_like, O1(k__id, Num(5))), Pair(k_like, O1(k_Sor, Num(5))),
    Pair(k_like, O1(k_id, Num(5))) }

MixedClauses ==
  {Obj(<<pq[1], pq[2]>>) : pq \in {x \in KeyedValues \X KeyedValues : x[1].k # x[2].k}}
  \cup {Obj(<<p, q, r>>) : p \in {Pair(k_like, O1(k__id, Num(5))), Pair(k_name, s_a)},
                           q \in {Pair(k_id, Num(5))},
                           r \in {Pair(k__id, Num(7)), Pair(k_or, Arr(<<O1(k_id, s_42)>>))}}

Wheres ==
  ScalarClauses \cup ModifierClauses \cup StringMatchClauses \cup NotClauses
  \cup PairedModifierClauses \cup LogicalClauses \cup LikeClauses \cup MixedClauses
  \cup {Null, Undefined, Num(5), EmptyObj}

Orders ==
  { Num(0), Num(0 - 1), Num(1), Num(2), Str(<<"a", "s", "c">>), Str(<<"d", "e", "s", "c">>),
    Str(<<"-", "1">>), Str(<<"0">>), Bool(TRUE), Bool(FALSE), Null }

Sorts ==
  {O1(f, o) : f \in {k_id, k__id, k_name, k_age}, o \in Orders}
  \cup {O2(fg[1], o, fg[2], p) :
          fg \in {x \in {k_id, k__id} \X {k_id, k__id, k_name} : x[1] # x[2]},
          o \in Orders, p \in {Num(0), Num(1), s_a}}
  \cup {EmptyObj, Null, Undefined, s_a, Arr(<<Num(0), Num(1)>>)}

SomeWheres ==
  { Null, EmptyObj, O1(k_id, s_42), O1(k_or, Arr(<<O1(k_name, s_a), O1(k_name, s_42)>>)),
    O1(k_name, O1(k_contains, s_a)), O1(k_age, O1(k_not, Arr(<<Num(1), Num(2), Num(3)>>))) }

SomeSorts == {O1(k_id, Num(0 - 1)), O1(k_name, Str(<<"a", "s", "c">>)), Null}

Extras ==
  { Pair(k_limit, Num(5)), Pair(k_limit, s_42), Pair(k_skip, Null),
    Pair(k_skip, O1(k_id, s_42)), Pair(k_limit, Arr(<<Num(1)>>)) }

\* The criteria objects the constructor is called with.
Criteria ==
  {O1(k_where, w) : w \in Wheres}
  \cup {O1(k_sort, o) : o \in Sorts}
  \cup {Obj(<<p>>) : p \in Extras} \cup {EmptyObj}
  \cup {O2(k_where, w, k_sort, o) : w \in SomeWheres, o \in SomeSorts}
  \cup {Obj(<<p, Pair(k_where, w), Pair(k_sort, o)>>) :
          p \in Extras, w \in SomeWheres, o \in SomeSorts}
  \cup {Obj(<<Pair(k_sort, o), p, Pair(k_where, w), q>>) :
          o \in SomeSorts, w \in SomeWheres,
          p \in {e \in Extras : e.k = k_limit}, q \in {e \in Extras : e.k = k_skip}}

Inputs == {Label(c, Root) : c \in Criteria}

\* ---------------------------------------------------------- specification

Init ==
  /\ schema \in Schemas
  /\ options = Undefined
  /\ criteria = Undefined
  /\ error = Undefined
  /\ pc = "new"

\* new Query(options, schema): this.criteria = this.normalizeCriteria(options)
Query(opts) ==
  /\ pc = "new"
  /\ options' = opts
  /\ LET result == normalizeCriteria(opts)
     IN IF IsThrow(result)
        THEN /\ error' = result
             /\ pc' = "thrown"
             /\ UNCHANGED criteria
        ELSE /\ criteria' = result
             /\ pc' = "done"
             /\ UNCHANGED error
  /\ UNCHANGED schema

Next == \E opts \in Inputs : Query(opts)

Spec == Init /\ [][Next]_vars

\* ------------------------------------------------- what the claims speak of

\* The where and sort of the call, and their translations.
where == Get(options, k_where)

whereOut == Get(criteria, k_where)

sortIn == Get(options, k_sort)

sortOut == Get(criteria, k_sort)

IsLogicalKey(key) == toLowerCase(key) = k_or \/ key \in {k_Sor, k_Sand, k_Snor}

CanonicalKey(key) == IF toLowerCase(key) = k_or THEN k_Sor ELSE key

ClauseChildren(c) ==
  IF c.t # "object" THEN {}
  ELSE UNION { {c.kids[i].v.kids[j].v : j \in 1..Len(c.kids[i].v.kids)} :
               i \in {h \in 1..Len(c.kids) : IsLogicalKey(c.kids[h].k) /\ c.kids[h].v.t = "array"} }

\* Every clause parseClause is applied to: the where and, at every depth, the
\* elements of the arrays under its logical keys.
RECURSIVE ClausesOf(_)
ClausesOf(c) == {c} \cup UNION {ClausesOf(d) : d \in ClauseChildren(c)}

\* The calls of the reduce callback on one clause: the accumulator built so
\* far, the pair, and the clause itself.
StepsOf(c) ==
  LET pairs == Iteratee(c)
      before(i) == reduceClause(SubSeq(pairs, 1, i - 1), 1, clauseAccumulator(c), c)
  IN {[obj |-> before(i), key |-> pairs[i].k, val |-> pairs[i].v, this |-> c] :
        i \in {h \in 1..Len(pairs) : ~IsThrow(before(h))}}

Steps == IF pc = "new" THEN {} ELSE UNION {StepsOf(c) : c \in ClausesOf(where)}

After(st) == parseClausePair(st.obj, st.val, st.key, st.this)

\* The steps on a field key: neither a logical key nor `like`.
FieldSteps ==
  {st \in Steps : st.key.t = "string" /\ ~IsLogicalKey(st.key.s) /\ toLowerCase(st.key.s) # k_like}

\* The step wrote the translation of its expression under key, and only that.
WrittenUnder(st, key) == After(st) = Put(st.obj, key, parseExpression(Str(key), st.val))

\* The where is one field with a modifier map of one modifier.
SingleModifier ==
  /\ pc # "new"
  /\ where.t = "object" /\ Len(where.kids) = 1
  /\ ~IsLogicalKey(where.kids[1].k) /\ toLowerCase(where.kids[1].k) # k_like
  /\ where.kids[1].v.t = "object" /\ Len(where.kids[1].v.kids) = 1

TheModifier == where.kids[1].v.kids[1].k

TheOperand == where.kids[1].v.kids[1].v

\* The field's entry in the translated where: its key and its expression.
TheFieldOut == whereOut.kids[1].k

TheExpressionOut == whereOut.kids[1].v

\* ------------------------------------------------------------------ claims

\* C1: constructing a Query never raises an error to the caller, whatever the
\* criteria and the schema (string operands of contains, like, startsWith and
\* endsWith included).
C1_NoErrorSurfaced == pc # "thrown"

\* The body of the pattern the spec gives for a string modifier.
ExpectedBody(modifier, cs) ==
  IF modifier = k_contains THEN <<".", "*">> \o EscapeChars(cs) \o <<".", "*">>
  ELSE IF modifier = k_like THEN replacePercent(EscapeChars(cs))
  ELSE IF modifier = k_startsWith THEN EscapeChars(cs) \o <<".", "*">>
  ELSE <<".", "*">> \o EscapeChars(cs)

\* C2: a modifier map with one string modifier (contains, like, startsWith,
\* endsWith) and a string operand translates to the case-insensitive regular
\* expression ^body$, whatever the field's declared type.
C2_StringModifierRegExp ==
  (SingleModifier /\ TheModifier \in StringModifiers /\ TheOperand.t = "string")
    => /\ pc = "done"
       /\ TheExpressionOut =
            RegExp(<<"^">> \o ExpectedBody(TheModifier, TheOperand.s) \o <<"$">>, <<"i">>)

DecimalDigits(cs) == cs # <<>> /\ \A i \in 1..Len(cs) : IsDigit(cs[i])

RECURSIVE DecimalValue(_)
DecimalValue(cs) ==
  IF cs = <<>> THEN 0
  ELSE DecimalValue(SubSeq(cs, 1, Len(cs) - 1)) * Len(Digits)
       + (CHOOSE i \in 1..Len(Digits) : Digits[i] = cs[Len(cs)]) - 1

Declared(name, type) == \E e \in schema : e.field = name /\ e.type = type

Undeclared(name) == \A e \in schema : e.field # name

\* The schema says integer, string or nothing of the name.
Covered(name) == Declared(name, "integer") \/ Declared(name, "string") \/ Undeclared(name)

ExpectedScalar(name, val) ==
  IF Declared(name, "integer") THEN Num(DecimalValue(val.s)) ELSE val

DigitSteps == {st \in FieldSteps : st.val.t = "string" /\ DecimalDigits(st.val.s)}

\* C3 as stated: a digit string under a field key f (id included) becomes the
\* integer when the schema declares f integer, and stays the string when the
\* schema declares f string or does not declare it; it is written under the
\* output key for f.
C3_CoercedByInputKey ==
  \A st \in DigitSteps :
    Covered(st.key.s)
      => \E key \in {st.key.s} \cup (IF st.key.s = k_id THEN {k__id} ELSE {}) :
           After(st) = Put(st.obj, key, ExpectedScalar(st.key.s, st.val))

\* The key a field key is written under: _id for an id that is rewritten.
OutputKey(st) == IF st.key.s = k_id /\ ~Has(st.this, k__id) THEN k__id ELSE st.key.s

\* C3 as amended: the schema is consulted under the output key k of the field
\* (for a rewritten id, under _id): a digit string becomes the integer when the
\* schema declares k integer, and stays the string when the schema declares k
\* string or does not declare it.
C3_CoercedByOutputKey ==
  \A st \in DigitSteps :
    Covered(OutputKey(st))
      => After(st) = Put(st.obj, OutputKey(st), ExpectedScalar(OutputKey(st), st.val))

C3_Witness ==
  /\ pc = "done"
  /\ Get(where, k_id) = s_42
  /\ Declared(k__id, "integer") /\ Declared(k_id, "string")
  /\ Get(whereOut, k__id) = Num(42)

IdSteps == {st \in FieldSteps : st.key.s = k_id /\ ~IsThrow(After(st))}

\* C4 as stated: a key id is written under _id exactly when the output built
\* so far at that level has no _id; otherwise it is written under id.
C4_RewrittenByOutput ==
  \A st \in IdSteps :
    IF Has(st.obj, k__id) THEN WrittenUnder(st, k_id) ELSE WrittenUnder(st, k__id)

\* C4 as amended: a key id is written under _id exactly when the clause being
\* parsed has no key _id of its own; otherwise it is written under id.
C4_RewrittenByInput ==
  \A st \in IdSteps :
    IF Has(st.this, k__id) THEN WrittenUnder(st, k_id) ELSE WrittenUnder(st, k__id)

C4_Witness ==
  /\ pc = "done"
  /\ where.t = "object" /\ Len(where.kids) = 2
  /\ where.kids[1].k = k_id /\ where.kids[2].k = k__id
  /\ Has(whereOut, k_id) /\ Has(whereOut, k__id)

Comparisons ==
  { [sym |-> <<"<">>, long |-> k_lessThan, short |-> <<"l", "t">>, op |-> k_Slt],
    [sym |-> <<"<", "=">>, long |-> k_lessThanOrEqual, short |-> <<"l", "t", "e">>, op |-> k_Slte],
    [sym |-> <<">">>, long |-> k_greaterThan, short |-> <<"g", "t">>, op |-> k_Sgt],
    [sym |-> <<">", "=">>, long |-> k_greaterThanOrEqual, short |-> <<"g", "t", "e">>, op |-> k_Sgte] }

\* {key: coerce(operand)} for the field of the translated where.
Coerced(key) ==
  Obj(<<Pair(key, parseValue(Str(TheFieldOut), Str(TheModifier), TheOperand))>>)

\* C5 as stated: a modifier that is the symbol, or the long or the short name
\* in any letter case, translates to the canonical operator with the coerced
\* operand.
C5_AliasesAnyCase ==
  SingleModifier =>
    \A c \in Comparisons :
      (TheModifier = c.sym \/ toLowerCase(TheModifier) = toLowerCase(c.long)
         \/ toLowerCase(TheModifier) = c.short)
        => pc = "done" /\ TheExpressionOut = Coerced(c.op)

\* C5 as amended: a modifier that is the symbol, the long name spelled exactly
\* (lessThan, ...), or the short name in any letter case translates to the
\* canonical operator with the coerced operand; the long name in any other
\* letter case is passed through as it is spelled.
C5_AliasesShortAnyCase ==
  SingleModifier =>
    \A c \in Comparisons :
      /\ (TheModifier = c.sym \/ TheModifier = c.long \/ toLowerCase(TheModifier) = c.short)
           => pc = "done" /\ TheExpressionOut = Coerced(c.op)
      /\ (TheModifier # c.long /\ toLowerCase(TheModifier) = toLowerCase(c.long))
           => pc = "done" /\ TheExpressionOut = Coerced(TheModifier)

C5_Witness ==
  /\ SingleModifier /\ pc = "done"
  /\ TheModifier = <<"L", "T">> /\ TheOperand = s_42
  /\ Declared(TheFieldOut, "integer")
  /\ TheExpressionOut = Obj(<<Pair(k_Slt, Num(42))>>)

LogicalSteps == {st \in Steps : st.key.t = "string" /\ IsLogicalKey(st.key.s)}

\* C6: for a key $or, $and, $nor, or `or` in any letter case: an array value
\* [c1..cn] puts [parseClause(c1)..parseClause(cn)] under the canonical key, in
\* the same order and at every depth (an error one of the ci raises is the
\* result); any other value leaves the output as it was, without an error.
C6_LogicalOperators ==
  \A st \in LogicalSteps :
    IF st.val.t = "array"
    THEN IF IsThrow(After(st))
         THEN \E i \in 1..Len(st.val.kids) : After(st) = parseClause(st.val.kids[i].v)
         ELSE /\ After(st) = Put(st.obj, CanonicalKey(st.key.s), Get(After(st), CanonicalKey(st.key.s)))
              /\ Get(After(st), CanonicalKey(st.key.s)).t = "array"
              /\ Len(Get(After(st), CanonicalKey(st.key.s)).kids) = Len(st.val.kids)
              /\ \A i \in 1..Len(st.val.kids) :
                   Get(After(st), CanonicalKey(st.key.s)).kids[i].v = parseClause(st.val.kids[i].v)
    ELSE After(st) = st.obj

C6_Witness ==
  /\ pc = "done"
  /\ Has(where, <<"O", "R">>) /\ Get(where, <<"O", "R">>).t = "array"
  /\ Len(Get(where, <<"O", "R">>).kids) = 2
  /\ \E i \in 1..2 : Has(Get(where, <<"O", "R">>).kids[i].v, k_or)
  /\ Get(whereOut, k_Sor).t = "array" /\ Len(Get(whereOut, k_Sor).kids) = 2
  /\ \E i \in 1..2 : Has(Get(whereOut, k_Sor).kids[i].v, k_Sor)

IsNegation(modifier) == modifier = k_bang \/ toLowerCase(modifier) = k_not

\* C7: under ! or not in any letter case, a nested modifier map goes to $not
\* with the parsed map (an error its parse raises is the result), an array goes
\* to $nin as it is, any other operand goes to $ne coerced.
C7_Negation ==
  (SingleModifier /\ IsNegation(TheModifier)) =>
    IF TheOperand.t = "object" /\ ~Has(TheOperand, k_bsontype)
    THEN IF IsThrow(parseExpression(Str(where.kids[1].k), TheOperand))
         THEN pc = "thrown" /\ error = parseExpression(Str(where.kids[1].k), TheOperand)
         ELSE /\ pc = "done"
              /\ TheExpressionOut =
                   Obj(<<Pair(k_Snot, parseExpression(Str(TheFieldOut), TheOperand))>>)
    ELSE IF TheOperand.t = "array"
    THEN pc = "done" /\ TheExpressionOut = Obj(<<Pair(k_Snin, TheOperand)>>)
    ELSE pc = "done" /\ TheExpressionOut = Coerced(k_Sne)

C7_Witness ==
  /\ pc = "done"
  /\ Elems(Get(Get(where, k_age), k_not)) = <<Num(1), Num(2), Num(3)>>
  /\ Elems(Get(Get(whereOut, k_age), k_Snin)) = <<Num(1), Num(2), Num(3)>>

\* Every object and array inside a value, the value included.
RECURSIVE Objects(_)
Objects(v) ==
  IF v.t \in {"object", "array"}
  THEN {v} \cup UNION {Objects(v.kids[i].v) : i \in 1..Len(v.kids)}
  ELSE {}

\* The object of the caller's criteria with the given identity.
RECURSIVE Follow(_, _)
Follow(v, path) ==
  IF path = <<>> THEN v
  ELSE IF path[1] \in 1..Len(v.kids) THEN Follow(v.kids[path[1]].v, Tail(path))
  ELSE Undefined

\* C8: the translation writes to no object of its input (every object of the
\* caller's that the result holds is as the caller passed it, and the result
\* itself is a new object), and every top-level key other than where and sort
\* is in the result with its value unchanged.
C8_InputUntouched ==
  pc = "done" =>
    /\ criteria.a = Fresh
    /\ \A x \in Objects(criteria) : x.a # Fresh => x = Follow(options, Tail(x.a))
    /\ \A i \in 1..Len(options.kids) :
         options.kids[i].k \notin {k_where, k_sort}
           => Has(criteria, options.kids[i].k)
              /\ Get(criteria, options.kids[i].k) = options.kids[i].v
    /\ Keys(criteria) = Keys(options)

C8_Witness ==
  /\ pc = "done"
  /\ Has(where, k_id) /\ Has(whereOut, k__id) /\ Has(sortOut, k__id)
  /\ Get(options, k_skip).t = "object" /\ Get(criteria, k_skip) = Get(options, k_skip)

SortField(entry) == IF entry.k = Str(k_id) THEN k__id ELSE PropName(entry.k)

ExpectedOrder(order) == IF order = Num(0) \/ order = Num(0 - 1) THEN Num(0 - 1) ELSE Num(1)

\* C9: parseSort returns a mapping whose values are all 1 or -1: an order of 0
\* or -1 gives -1, any other order gives 1; id is written under _id and every
\* other field under its own name (the last entry of a name decides).
C9_SortNormalized ==
  (pc = "done" /\ Has(options, k_sort)) =>
    LET entries == Iteratee(sortIn)
    IN /\ \A i \in 1..Len(sortOut.kids) :
            /\ sortOut.kids[i].v \in {Num(1), Num(0 - 1)}
            /\ \E j \in 1..Len(entries) : SortField(entries[j]) = sortOut.kids[i].k
       /\ \A j \in 1..Len(entries) :
            /\ Has(sortOut, SortField(entries[j]))
            /\ (\A h \in (j + 1)..Len(entries) : SortField(entries[h]) # SortField(entries[j]))
                 => Get(sortOut, SortField(entries[j])) = ExpectedOrder(entries[j].v)

C9_Witness ==
  /\ pc = "done"
  /\ Get(sortIn, k_id) = Num(0) /\ Get(sortIn, k_name) = s_a
  /\ Get(sortOut, k__id) = Num(0 - 1) /\ Get(sortOut, k_name) = Num(1)

\* Every clause level of a translated where.
RECURSIVE LevelsOf(_)
LevelsOf(o) ==
  {o} \cup UNION { UNION {LevelsOf(o.kids[i].v.kids[j].v) : j \in 1..Len(o.kids[i].v.kids)} :
                   i \in {h \in 1..Len(o.kids) :
                            o.kids[h].k \in LogicalOperators /\ o.kids[h].v.t = "array"} }

\* C10: at every clause level of the translated where, a key $or, $and or $nor
\* maps to a sequence of parsed clauses, never to a scalar, a regular
\* expression or a modifier map.
C10_LogicalKeysHoldSequences ==
  (pc = "done" /\ Has(options, k_where)) =>
    \A o \in LevelsOf(whereOut) :
      \A key \in LogicalOperators :
        Has(o, key) => /\ Get(o, key).t = "array"
                       /\ \A i \in 1..Len(Get(o, key).kids) : Get(o, key).kids[i].v.t = "object"

====
